---- MODULE Spec2Model ----
(***************************************************************************)
(* A model of the Group core of sentry (src/sentry/models/group.py,        *)
(* src/sentry/models/groupredirect.py) and of the team creation endpoint   *)
(* (src/sentry/api/endpoints/organization_teams.py).                       *)
(*                                                                         *)
(* Strings are sequences of one-character strings.  An integer column     *)
(* that holds an identifier decoded from text (short_id) is a sequence of  *)
(* base-32 digits, most significant first and without leading zeros, so    *)
(* that values beyond 2^63-1 can be compared; the empty sequence is NULL.  *)
(***************************************************************************)
EXTENDS Integers, Sequences, FiniteSets, TLC

VARIABLES
    store,        \* ids of the rows of sentry_groupedmessage
    status,       \* status[g]: the stored status column of group g
    ledger,       \* rows of sentry_groupredirect
    created,      \* history: <<A, B>> for every create_for_group(A, B) that returned
    last,         \* the record of the most recent lookup or write and its outcome
    merge,        \* merge[p]: the create_for_group call of the concurrent request p
    issue,        \* the group get_status is called on: stored status and last_seen
    snooze,       \* the GroupSnooze record of that group, if any
    resolve_age,  \* the project option sentry:resolve_age
    now,          \* timezone.now(), in hours
    statusCall,   \* the record of the most recent get_status call
    obj,          \* the fields of the Group instance that is edited and saved
    persisted,    \* the record of the most recent save of that instance and the row it wrote
    teams,        \* rows of sentry_team
    memberTeams,  \* rows of sentry_organizationmember_teams
    signals,      \* the team_created signals sent
    audit,        \* the audit log entries written
    resp,         \* the record of the most recent POST and its response
    parsed        \* the record of the most recent parse_short_id call

groupVars == <<store, status, ledger, created, last, merge>>

resolverVars == <<issue, snooze, resolve_age, now, statusCall>>

saveVars == <<obj, persisted>>

teamVars == <<teams, memberTeams, signals, audit, resp>>

parseVars == <<parsed>>

vars == <<groupVars, resolverVars, saveVars, teamVars, parseVars>>

\* The variables of the other components, which the Group lookups leave alone
others == <<resolverVars, saveVars, teamVars, parseVars>>

\* ------------------------------------------------------------------ bounds
MaxGroup == 3
MaxRedirects == 2
NumProcs == 2
MaxTime == 3
MaxAge == 2
MaxStamp == 2
MaxTimesSeen == 2
MaxTeams == 2
MaxLen == 3

\* ----------------------------------------------------------------- strings
NoStr == <<>>

Digits == <<"0", "1", "2", "3", "4", "5", "6", "7", "8", "9">>
Lowers == <<"a", "b", "c", "d", "e", "f", "g", "h", "i", "j", "k", "l", "m",
            "n", "o", "p", "q", "r", "s", "t", "u", "v", "w", "x", "y", "z">>
Uppers == <<"A", "B", "C", "D", "E", "F", "G", "H", "I", "J", "K", "L", "M",
            "N", "O", "P", "Q", "R", "S", "T", "U", "V", "W", "X", "Y", "Z">>

Range(f) == {f[i] : i \in DOMAIN f}

IndexOf(seq, c) == IF c \in Range(seq) THEN CHOOSE i \in DOMAIN seq : seq[i] = c ELSE 0

SetMin(S) == CHOOSE x \in S : \A y \in S : x <= y

CharUpper(c) == IF c \in Range(Lowers) THEN Uppers[IndexOf(Lowers, c)] ELSE c

CharLower(c) == IF c \in Range(Uppers) THEN Lowers[IndexOf(Uppers, c)] ELSE c

\* str.upper()
StrUpper(s) == [i \in DOMAIN s |-> CharUpper(s[i])]

\* str.lower()
StrLower(s) == [i \in DOMAIN s |-> CharLower(s[i])]

IsSpace(c) == c \in {" ", "\t", "\n"}

IsAlnum(c) == c \in Range(Digits) \cup Range(Lowers) \cup Range(Uppers)

\* str.isdigit()
IsDigitStr(s) == Len(s) > 0 /\ \A i \in DOMAIN s : s[i] \in Range(Digits)

\* str.lstrip() and str.rstrip()
RECURSIVE StrLStrip(_)
StrLStrip(s) == IF Len(s) > 0 /\ IsSpace(s[1]) THEN StrLStrip(Tail(s)) ELSE s

RECURSIVE StrRStrip(_)
StrRStrip(s) ==
    IF Len(s) > 0 /\ IsSpace(s[Len(s)]) THEN StrRStrip(SubSeq(s, 1, Len(s) - 1)) ELSE s

\* str.strip()
StrStrip(s) == StrRStrip(StrLStrip(s))

\* int(s) of a string of decimal digits
RECURSIVE StrToInt(_)
StrToInt(s) ==
    IF Len(s) = 0 THEN 0
    ELSE StrToInt(SubSeq(s, 1, Len(s) - 1)) * 10 + (IndexOf(Digits, s[Len(s)]) - 1)

\* str(n) of a natural number
RECURSIVE IntToStr(_)
IntToStr(n) ==
    IF n < 10 THEN <<Digits[n + 1]>>
    ELSE IntToStr(n \div 10) \o <<Digits[(n % 10) + 1]>>

\* ------------------------------------------------- sentry.utils.numbers
Base32Alphabet ==
    <<"0", "1", "2", "3", "4", "5", "6", "7", "8", "9", "A", "B", "C", "D", "E", "F",
      "G", "H", "J", "K", "M", "N", "P", "Q", "R", "S", "T", "V", "W", "X", "Y", "Z">>

NoId == <<>>

RECURSIVE Normalize(_)
Normalize(d) ==
    IF Len(d) > 1 /\ d[1] = 0 THEN Normalize(Tail(d)) ELSE d

\* The number n as base-32 digits
RECURSIVE Num(_)
Num(n) == IF n < 32 THEN <<n>> ELSE Num(n \div 32) \o <<n % 32>>

\* base32_encode(number): one symbol of the alphabet per base-32 digit
base32_encode(number) == [i \in DOMAIN number |-> Base32Alphabet[number[i] + 1]]

\* base32_decode(number): upper-cases, reads O as 0 and I, L as 1, then looks
\* every symbol up in the alphabet; a symbol outside it is a ValueError.
base32_decode(number) ==
    LET up == StrUpper(number)
        sub == [i \in DOMAIN up |->
                   IF up[i] = "O" THEN "0"
                   ELSE IF up[i] \in {"I", "L"} THEN "1" ELSE up[i]]
    IN IF Len(sub) = 0 \/ \E i \in DOMAIN sub : sub[i] \notin Range(Base32Alphabet)
       THEN [ok |-> FALSE, value |-> NoId]
       ELSE [ok |-> TRUE,
             value |-> Normalize([i \in DOMAIN sub |-> IndexOf(Base32Alphabet, sub[i]) - 1])]

\* BoundedBigIntegerField.MAX_VALUE = 2^63 - 1 = 7 * 32^12 + (32^12 - 1)
MaxIdDigits == <<7>> \o [i \in 1..12 |-> 31]

\* a > b on normalized digit sequences
RECURSIVE DigitsGreater(_, _)
DigitsGreater(a, b) ==
    IF Len(a) # Len(b) THEN Len(a) > Len(b)
    ELSE IF Len(a) = 0 THEN FALSE
    ELSE IF a[1] # b[1] THEN a[1] > b[1]
    ELSE DigitsGreater(Tail(a), Tail(b))

\* ------------------------------------------------------ parse_short_id
IsSeparator(c) == IsSpace(c) \/ c \in {"_", "-"}

\* None; raised names the exception that leaves parse_short_id, if one does
NoShortId == [ok |-> FALSE, project_slug |-> NoStr, short_id |-> NoId, raised |-> "none"]

\* _short_id_re = ^(.*?)(?:[\s_-])([A-Za-z0-9]+)$ : the first position of a
\* separator that is followed by alphanumerics only, up to the end.
ShortIdReMatch(s) ==
    LET n == Len(s)
        cands == {i \in 1..n :
                     /\ IsSeparator(s[i])
                     /\ i < n
                     /\ \A j \in (i + 1)..n : IsAlnum(s[j])
                     /\ \A j \in 1..(i - 1) : s[j] # "\n"}
    IN IF cands = {} THEN [ok |-> FALSE, slug |-> NoStr, id |-> NoStr]
       ELSE LET i == SetMin(cands)
            IN [ok |-> TRUE, slug |-> SubSeq(s, 1, i - 1), id |-> SubSeq(s, i + 1, n)]

\* A slip: the decoded value is not compared with the maximum of the field
parse_short_id_NoMaxCheck(short_id) ==
    LET match == ShortIdReMatch(StrStrip(short_id))
    IN IF ~match.ok THEN NoShortId
       ELSE LET slug == StrLower(match.slug)
                dec == base32_decode(match.id)
            IN IF ~dec.ok THEN NoShortId
               ELSE [ok |-> TRUE, project_slug |-> slug, short_id |-> dec.value,
                     raised |-> "none"]

\* parse_short_id: None without a match, on the ValueError of base32_decode
\* (caught at line 47) and on a value above the maximum of the field
parse_short_id(short_id) ==
    LET match == ShortIdReMatch(StrStrip(short_id))
    IN IF ~match.ok THEN NoShortId
       ELSE LET slug == StrLower(match.slug)
                dec == base32_decode(match.id)
            IN IF ~dec.ok THEN NoShortId
               ELSE IF DigitsGreater(dec.value, MaxIdDigits) THEN NoShortId
               ELSE [ok |-> TRUE, project_slug |-> slug, short_id |-> dec.value,
                     raised |-> "none"]

looks_like_short_id(value) == ShortIdReMatch(StrStrip(value)).ok

\* --------------------------------------------------------- GroupStatus
UNRESOLVED == 0
RESOLVED == 1
IGNORED == 2
PENDING_DELETION == 3
DELETION_IN_PROGRESS == 4
PENDING_MERGE == 5

GroupStatusValues ==
    {UNRESOLVED, RESOLVED, IGNORED, PENDING_DELETION, DELETION_IN_PROGRESS, PENDING_MERGE}

\* ------------------------------------------- projects and group identity
\* Three projects: 1 and 3 belong to organization 1, 2 to organization 2;
\* project slugs are unique within an organization only, so 1 and 2 share one.
Orgs == {1, 2}

Projects == {1, 2, 3}

ProjectOrg(p) == IF p = 2 THEN 2 ELSE 1

ProjectSlug(p) == IF p = 3 THEN <<"b", "-", "c">> ELSE <<"a">>

GroupIds == 1..MaxGroup

\* Group.project: groups are dealt to the projects 1, 2, 1, 3 in turn
GroupProject(g) ==
    LET k == (g - 1) % 4
    IN IF k = 1 THEN 2 ELSE IF k = 3 THEN 3 ELSE 1

\* Group.short_id: nullable, unique within a project, never reassigned
GroupShortId(g) ==
    LET k == (g - 1) % 4
        r == (g - 1) \div 4
    IN IF k = 2 THEN NoId
       ELSE IF k = 3 THEN Num(44 + r)
       ELSE Num(1 + r)

GroupSlug(g) == ProjectSlug(GroupProject(g))

\* Group.organization
GroupOrg(g) == ProjectOrg(GroupProject(g))

\* Group.qualified_short_id (None, here the empty string, without a short_id)
qualified_short_id(g) ==
    IF GroupShortId(g) # NoId
    THEN StrUpper(GroupSlug(g)) \o <<"-">> \o base32_encode(GroupShortId(g))
    ELSE NoStr

\* --------------------------------------------------------------- queries
NoGroup == 0

\* QuerySet.get: one row, or DoesNotExist, or MultipleObjectsReturned
DjangoGet(rows) ==
    IF rows = {} THEN [outcome |-> "DoesNotExist", group |-> NoGroup]
    ELSE IF Cardinality(rows) = 1 THEN [outcome |-> "ok", group |-> CHOOSE g \in rows : TRUE]
    ELSE [outcome |-> "MultipleObjectsReturned", group |-> NoGroup]

\* The queryset argument: 0 is None (Group.objects.all()), an organization
\* id o is Group.objects.filter(project__organization=o).
QuerySets == {0} \cup Orgs

\* A slip: the queryset of the caller is not used
QuerySetRows_Unfiltered(queryset, rows) == rows

\* The rows of the queryset argument
QuerySetRows(queryset, rows) ==
    IF queryset = 0 THEN rows ELSE {g \in rows : GroupOrg(g) = queryset}

NoCall ==
    [op |-> "none", token |-> NoStr, queryset |-> 0, outcome |-> "none",
     group |-> NoGroup, redirected |-> FALSE, raised |-> "none", queries |-> <<>>,
     from_group |-> NoGroup, to_group |-> NoGroup]

\* Lines 68 to 75: a token of digits is an id, any other token is parsed as
\* a qualified short id
LookupKey(token) ==
    [numeric |-> IsDigitStr(token),
     id |-> IF IsDigitStr(token) THEN StrToInt(token) ELSE NoGroup,
     short_id |-> IF IsDigitStr(token) THEN NoShortId ELSE parse_short_id(token)]

\* The filter of the first lookup: by id, or by project slug and short id
DirectMatches(key, rows) ==
    IF key.numeric THEN {g \in rows : g = key.id}
    ELSE {g \in rows : /\ GroupSlug(g) = key.short_id.project_slug
                       /\ GroupShortId(g) = key.short_id.short_id}

\* A slip: the ledger is followed from row to row, one entry further
RedirectTargets_Chained(key, redirects) ==
    LET first == IF key.numeric
                 THEN {r.group_id : r \in {x \in redirects : x.previous_group_id = key.id}}
                 ELSE {r.group_id : r \in {x \in redirects :
                                  /\ x.previous_short_id = key.short_id.short_id
                                  /\ x.previous_project_slug = key.short_id.project_slug}}
        second == {r.group_id : r \in {x \in redirects : x.previous_group_id \in first}}
    IN first \cup second

\* The subquery of the second lookup: the group_id of the ledger rows that
\* carry the token as previous id, or as previous short id and project slug
RedirectTargets(key, redirects) ==
    IF key.numeric
    THEN {r.group_id : r \in {x \in redirects : x.previous_group_id = key.id}}
    ELSE {r.group_id : r \in {x \in redirects :
                                 /\ x.previous_short_id = key.short_id.short_id
                                 /\ x.previous_project_slug = key.short_id.project_slug}}

\* A slip: the error of the second lookup is raised instead of the first
ReRaised_Second == "redirect"

\* Which of the two DoesNotExist errors leaves get_group_with_redirect when
\* both lookups miss: the one caught first ("direct")
ReRaised == "direct"

get_group_with_redirect(token, key, queryset, rows, redirects) ==
    LET qs == QuerySetRows(queryset, rows)
        res == [NoCall EXCEPT !.op = "get_group_with_redirect", !.token = token,
                              !.queryset = queryset]
    IN IF ~key.numeric /\ ~key.short_id.ok
       THEN [res EXCEPT !.outcome = "DoesNotExist", !.raised = "parse"]
       ELSE LET direct == DjangoGet(DirectMatches(key, qs))
            IN IF direct.outcome = "ok"
               THEN [res EXCEPT !.outcome = "ok", !.group = direct.group,
                                !.queries = <<"getter">>]
               ELSE IF direct.outcome # "DoesNotExist"
               THEN [res EXCEPT !.outcome = direct.outcome, !.raised = "direct",
                                !.queries = <<"getter">>]
               ELSE LET second == DjangoGet(qs \cap RedirectTargets(key, redirects))
                    IN IF second.outcome = "ok"
                       THEN [res EXCEPT !.outcome = "ok", !.group = second.group,
                                        !.redirected = TRUE,
                                        !.queries = <<"getter", "redirect">>]
                       ELSE IF second.outcome = "DoesNotExist"
                       THEN [res EXCEPT !.outcome = "DoesNotExist", !.raised = ReRaised,
                                        !.queries = <<"getter", "redirect">>]
                       ELSE [res EXCEPT !.outcome = second.outcome, !.raised = "redirect",
                                        !.queries = <<"getter", "redirect">>]

\* ------------------------------------------------------- GroupRedirect
\* A slip: the two groups are taken the wrong way round
RedirectRow_Swapped(from_group, to_group) ==
    [group_id |-> from_group,
     previous_group_id |-> to_group,
     previous_short_id |-> GroupShortId(to_group),
     previous_project_slug |-> GroupSlug(to_group)]

\* GroupRedirect.create_for_group: the row it inserts
RedirectRow(from_group, to_group) ==
    [group_id |-> to_group,
     previous_group_id |-> from_group,
     previous_short_id |-> GroupShortId(from_group),
     previous_project_slug |-> GroupSlug(from_group)]

\* unique=True on previous_group_id; unique_together on (previous_short_id,
\* previous_project_slug), which a NULL previous_short_id never violates
UniqueConflict(row, redirects) ==
    \E r \in redirects :
        \/ r.previous_group_id = row.previous_group_id
        \/ /\ row.previous_short_id # NoId
           /\ r.previous_short_id = row.previous_short_id
           /\ r.previous_project_slug = row.previous_project_slug

\* GroupRedirect.objects.create: the INSERT, which raises IntegrityError and
\* leaves the table alone on a uniqueness conflict
RedirectInsert(row, redirects) ==
    IF UniqueConflict(row, redirects)
    THEN [outcome |-> "IntegrityError", rows |-> redirects]
    ELSE [outcome |-> "ok", rows |-> redirects \cup {row}]

\* ------------------------------------------------------------- tokens
\* The identifiers handed to the lookups: ids (also one past the last group),
\* the qualified short ids of the groups, and variants of "A-1"
Tokens ==
    {IntToStr(n) : n \in 1..(MaxGroup + 1)}
    \cup {qualified_short_id(g) : g \in {x \in GroupIds : GroupShortId(x) # NoId}}
    \cup {<<"a", "-", "1">>, <<"A", "_", "1">>, <<" ", "A", "-", "1", " ">>,
          <<"A", "-", "I">>, <<"A", "-", "U">>, <<"A", "1">>, <<"-", "1">>, NoStr,
          <<"B", "-", "C", "-", "1", "C">>}

\* LookupKey of every token, evaluated once
KeyOf == [t \in Tokens |-> LookupKey(t)]

\* ---------------------------------------------- inputs of parse_short_id
\* The characters of the inputs: letters of both cases, a digit, a letter
\* read as a digit, a letter outside the alphabet, separators, a line break
ParseChars == {"a", "B", "1", "L", "U", "-", "_", " ", "\n"}

\* Ends of an input: nothing, the maximum of the field (2^63 - 1), one above
\* it, the maximum after a zero, and the maximum with a letter outside the
\* alphabet
LongTails ==
    {NoStr,
     <<"7">> \o [i \in 1..12 |-> "Z"],
     <<"8">> \o [i \in 1..12 |-> "0"],
     <<"0", "7">> \o [i \in 1..12 |-> "z"],
     <<"7">> \o [i \in 1..11 |-> "Z"] \o <<"U">>}

\* The inputs: every string of at most MaxLen characters, before every end
ParseInputs ==
    {pre \o tail : pre \in UNION {[1..k -> ParseChars] : k \in 0..MaxLen},
                   tail \in LongTails}

NoParse == [called |-> FALSE, input |-> NoStr, result |-> NoShortId, looks |-> FALSE]

InitParse == parsed = NoParse

\* ------------------------------------------------------- Group.get_status
\* project.get_option('sentry:resolve_age', None) when the option is not set
NoAge == -1

\* The values of the option: not set, 0 (switched off), or a number of hours
Ages == {NoAge} \cup (0..MaxAge)

\* GroupSnooze.objects.get(group=self) and snooze.is_valid(group=self): there
\* is no record, or a record that is still valid, or one that no longer is
SnoozeStates == {"none", "valid", "invalid"}

NoStatusCall == [called |-> FALSE, stored |-> UNRESOLVED, result |-> UNRESOLVED]

\* A slip: the comparison admits a last_seen exactly resolve_age hours old
is_over_resolve_age_OrEqual(g, age, t) ==
    IF age = NoAge \/ age = 0 THEN FALSE ELSE g.last_seen <= t - age

\* Group.is_over_resolve_age, at time t with the option at age
is_over_resolve_age(g, age, t) ==
    IF age = NoAge \/ age = 0 THEN FALSE ELSE g.last_seen < t - age

\* A slip: the test of snooze.is_valid is inverted
SnoozeStep_ValidOverrides(st, sn) ==
    IF st = IGNORED /\ sn = "valid" THEN UNRESOLVED ELSE st

\* Lines 366 to 373: the status after the snooze has been consulted
SnoozeStep(st, sn) ==
    IF st = IGNORED
    THEN IF sn = "none" THEN st
         ELSE IF sn = "invalid" THEN UNRESOLVED ELSE st
    ELSE st

\* A slip: the computed status is kept on the instance
get_status_Caching(g, sn, age, t) ==
    LET st == SnoozeStep(g.status, sn)
        res == IF st = UNRESOLVED /\ is_over_resolve_age(g, age, t) THEN RESOLVED ELSE st
    IN [result |-> res, self |-> [g EXCEPT !.status = res]]

\* Group.get_status: the status it returns, and the instance it leaves
get_status(g, sn, age, t) ==
    LET st == SnoozeStep(g.status, sn)
    IN [result |-> IF st = UNRESOLVED /\ is_over_resolve_age(g, age, t)
                   THEN RESOLVED ELSE st,
        self |-> g]

InitResolver ==
    /\ issue = [status |-> UNRESOLVED, last_seen |-> 0]
    /\ snooze = "none"
    /\ resolve_age = NoAge
    /\ now = 0
    /\ statusCall = NoStatusCall

\* ------------------------------------------------------------ Group.save
\* None in a timestamp attribute, and in times_seen
NoTime == -1

NoCount == -1

\* Timestamps in seconds since the epoch
Stamps == 1..MaxStamp

\* sentry.utils.strings.strip: '' for a false value, else without the white
\* space around it
strip(value) == IF Len(value) = 0 THEN NoStr ELSE StrStrip(value)

\* str.splitlines()[0] of a string that is not empty
FirstLine(value) ==
    LET breaks == {i \in DOMAIN value : value[i] = "\n"}
    IN IF breaks = {} THEN value ELSE SubSeq(value, 1, SetMin(breaks) - 1)

\* sentry.utils.strings.truncatechars
truncatechars(value, length) ==
    IF Len(value) > length
    THEN SubSeq(value, 1, length - 3) \o <<".", ".", ".">>
    ELSE value

\* math.log(n) * 600 in thousandths, rounded down, for the counts of the model
Log600(n) ==
    IF n = 1 THEN 0
    ELSE IF n = 2 THEN 415888
    ELSE IF n = 3 THEN 659167
    ELSE 831776

\* Group.calculate_score, a float, here in thousandths
calculate_score(times_seen, last_seen) ==
    Log600(IF times_seen = 0 \/ times_seen = NoCount THEN 1 ELSE times_seen)
        + last_seen * 1000

\* A slip: the score is computed for a new group only
save_ScoreOnCreate(g, t) ==
    LET last_seen == IF g.last_seen = NoTime THEN t ELSE g.last_seen
        first_seen == IF g.first_seen = NoTime THEN last_seen ELSE g.first_seen
        active_at == IF g.active_at = NoTime THEN first_seen ELSE g.active_at
        stripped == strip(g.message)
        message == IF Len(stripped) > 0
                   THEN truncatechars(FirstLine(stripped), 255) ELSE stripped
        times_seen == IF g.times_seen = NoCount THEN 1 ELSE g.times_seen
    IN [last_seen |-> last_seen, first_seen |-> first_seen, active_at |-> active_at,
        message |-> message, times_seen |-> times_seen,
        score |-> IF g.score = 0 THEN calculate_score(times_seen, last_seen) ELSE g.score]

\* Group.save at time t: the attributes it leaves on the instance
save(g, t) ==
    LET last_seen == IF g.last_seen = NoTime THEN t ELSE g.last_seen
        first_seen == IF g.first_seen = NoTime THEN last_seen ELSE g.first_seen
        active_at == IF g.active_at = NoTime THEN first_seen ELSE g.active_at
        stripped == strip(g.message)
        message == IF Len(stripped) > 0
                   THEN truncatechars(FirstLine(stripped), 255) ELSE stripped
        times_seen == IF g.times_seen = NoCount THEN 1 ELSE g.times_seen
    IN [last_seen |-> last_seen, first_seen |-> first_seen, active_at |-> active_at,
        message |-> message, times_seen |-> times_seen,
        score |-> calculate_score(times_seen, last_seen)]

\* score = BoundedIntegerField: the column holds int(score), the float cut
\* to its integer part
ScoreColumn(score) == score \div 1000

\* super(Group, self).save(): the row written from the attributes
Persist(g) == [g EXCEPT !.score = ScoreColumn(g.score)]

\* The messages given to the instance: empty, two lines with white space
\* around them, and one line of 256 characters
Messages ==
    {NoStr, <<" ", "a", " ", "\n", "b", " ">>, [i \in 1..256 |-> "a"]}

\* Group(): the field defaults, taken at time 1
NewGroup ==
    [last_seen |-> 1, first_seen |-> 1, active_at |-> NoTime,
     message |-> NoStr, times_seen |-> 1, score |-> 0]

NoSave == [saved |-> FALSE, saves |-> 0, at |-> NoTime, before |-> NewGroup, row |-> NewGroup]

InitSave ==
    /\ obj = NewGroup
    /\ persisted = NoSave

\* ------------------------------------------- OrganizationTeamsEndpoint
CONFLICTING_SLUG_ERROR == "A team with this slug already exists."

\* request.user: 0 is the anonymous user, 1 an authenticated user
Users == {0, 1}

is_authenticated(user) == user # 0

\* The rows of OrganizationMember: user 1 is a member of organization 1 only
OrgMembers == {[user |-> 1, organization |-> 1]}

\* request.DATA: name and slug, each of which may be missing (the empty
\* string); a name of 65 and a slug of 51 characters are too long
Bodies ==
    {[name |-> NoStr, slug |-> NoStr],
     [name |-> <<"A", " ", "b">>, slug |-> NoStr],
     [name |-> NoStr, slug |-> <<"a", "-", "b">>],
     [name |-> <<"A", " ", "b">>, slug |-> <<"x">>],
     [name |-> NoStr, slug |-> <<"X", " ">>],
     [name |-> NoStr, slug |-> [i \in 1..51 |-> "s"]],
     [name |-> [i \in 1..65 |-> "n"], slug |-> NoStr],
     [name |-> [i \in 1..65 |-> "n"], slug |-> <<"a", "-", "b">>]}

\* name = CharField(max_length=64, required=False)
NameFieldValid(name) == Len(name) <= 64

\* slug = RegexField(r'^[a-z0-9_\-]+$', max_length=50, required=False)
SlugFieldValid(slug) ==
    \/ Len(slug) = 0
    \/ /\ Len(slug) <= 50
       /\ \A i \in DOMAIN slug :
             slug[i] \in Range(Lowers) \cup Range(Digits) \cup {"_", "-"}

\* A slip: validate asks for a name and forgets the slug
SerializerValid_NameOnly(attrs) ==
    /\ NameFieldValid(attrs.name)
    /\ SlugFieldValid(attrs.slug)
    /\ Len(attrs.name) > 0

\* TeamSerializer.is_valid: the two fields, then validate
SerializerValid(attrs) ==
    /\ NameFieldValid(attrs.name)
    /\ SlugFieldValid(attrs.slug)
    /\ (Len(attrs.name) > 0 \/ Len(attrs.slug) > 0)

\* slugify: lower case, with a hyphen for every space
Slugify(name) == [i \in DOMAIN name |-> IF name[i] = " " THEN "-" ELSE CharLower(name[i])]

\* A team saved without a slug gets one from its name, with a suffix when the
\* organization has a team with that slug already
DeriveSlug(name, organization, rows) ==
    LET base == Slugify(name)
        taken == {t.slug : t \in {x \in rows : x.organization = organization}}
        free == {k \in 2..(Cardinality(rows) + 2) : (base \o <<"-">> \o IntToStr(k)) \notin taken}
    IN IF base \notin taken THEN base ELSE base \o <<"-">> \o IntToStr(SetMin(free))

NoTeam == 0

\* Team.objects.create(name, slug, organization): IntegrityError when the
\* organization has a team with the slug
TeamCreate(name, slug, organization, rows) ==
    LET sl == IF Len(slug) = 0 THEN DeriveSlug(name, organization, rows) ELSE slug
        team == [id |-> Cardinality(rows) + 1, organization |-> organization,
                 slug |-> sl, name |-> name]
    IN IF \E t \in rows : t.organization = organization /\ t.slug = sl
       THEN [outcome |-> "IntegrityError", team |-> team, rows |-> rows]
       ELSE [outcome |-> "ok", team |-> team, rows |-> rows \cup {team}]

\* A slip: the member is looked up by user alone
MemberLookup_AnyOrganization(user, organization) ==
    {m \in OrgMembers : m.user = user}

\* OrganizationMember.objects.get(user=request.user, organization=organization)
MemberLookup(user, organization) ==
    {m \in OrgMembers : m.user = user /\ m.organization = organization}

\* OrganizationTeamsEndpoint.post: the response and the tables it leaves
post(organization, user, data, db) ==
    IF ~SerializerValid(data)
    THEN [status |-> 400, detail |-> "errors", team |-> NoTeam, db |-> db]
    ELSE LET made == TeamCreate(IF Len(data.name) > 0 THEN data.name ELSE data.slug,
                                data.slug, organization, db.teams)
             team == made.team
             members == IF is_authenticated(user)
                        THEN MemberLookup(user, organization) ELSE {}
         IN IF made.outcome = "IntegrityError"
            THEN [status |-> 409, detail |-> CONFLICTING_SLUG_ERROR, team |-> NoTeam,
                  db |-> db]
            ELSE [status |-> 201, detail |-> "team", team |-> team.id,
                  db |-> [teams |-> made.rows,
                          signals |-> db.signals \cup
                              {[organization |-> organization, user |-> user,
                                team |-> team.id]},
                          memberTeams |-> db.memberTeams \cup
                              {[team |-> team.id, organizationmember |-> m] : m \in members},
                          audit |-> db.audit \cup
                              {[organization |-> organization, actor |-> user,
                                target_object |-> team.id, event |-> "TEAM_ADD"]}]]

NoResp ==
    [op |-> "none", organization |-> 0, user |-> 0,
     data |-> [name |-> NoStr, slug |-> NoStr],
     status |-> 0, detail |-> "none", team |-> NoTeam]

InitTeams ==
    /\ teams = {}
    /\ memberTeams = {}
    /\ signals = {}
    /\ audit = {}
    /\ resp = NoResp

\* The concurrent requests that call create_for_group
Procs == 1..NumProcs

Idle == [pc |-> "idle", from_group |-> NoGroup, to_group |-> NoGroup, inserts |-> 0]

\* ------------------------------------------------------------- actions
InitGroups ==
    /\ store = GroupIds
    /\ status = [g \in GroupIds |-> UNRESOLVED]
    /\ ledger = {}
    /\ created = {}
    /\ last = NoCall
    /\ merge = [p \in Procs |-> Idle]

Init ==
    /\ InitGroups
    /\ InitResolver
    /\ InitSave
    /\ InitTeams
    /\ InitParse

GetGroupWithRedirect(token, queryset) ==
    /\ last' = get_group_with_redirect(token, KeyOf[token], queryset, store, ledger)
    /\ UNCHANGED <<store, status, ledger, created, merge, others>>

CreateForGroup(from_group, to_group) ==
    LET ins == RedirectInsert(RedirectRow(from_group, to_group), ledger)
    IN /\ Cardinality(ins.rows) <= MaxRedirects
       /\ ledger' = ins.rows
       /\ created' = IF ins.outcome = "ok"
                     THEN created \cup {<<from_group, to_group>>} ELSE created
       /\ last' = [NoCall EXCEPT !.op = "create_for_group", !.outcome = ins.outcome,
                                 !.from_group = from_group, !.to_group = to_group]
       /\ UNCHANGED <<store, status, merge, others>>

\* A group row is removed (merged away or deleted)
DeleteGroup(g) ==
    /\ g \in store
    /\ store' = store \ {g}
    /\ last' = [NoCall EXCEPT !.op = "delete", !.group = g]
    /\ UNCHANGED <<status, ledger, created, merge, others>>

Next ==
    \/ \E token \in Tokens, queryset \in QuerySets : GetGroupWithRedirect(token, queryset)
    \/ \E from_group \in GroupIds, to_group \in GroupIds : CreateForGroup(from_group, to_group)
    \/ \E g \in GroupIds : DeleteGroup(g)

Spec == Init /\ [][Next]_vars

\* ----------------------------------------------- claims on the lookups
\* The last operation was get_group_with_redirect(token), without a queryset
LookedUp(token) ==
    last.op = "get_group_with_redirect" /\ last.queryset = 0 /\ last.token = token

Returned(g, redirected) ==
    last.outcome = "ok" /\ last.group = g /\ last.redirected = redirected

\* C1 as stated: for any two groups A and B with B in the store, after
\* create_for_group(A, B) a lookup of A's id or of A's qualified short id
\* returns (B, True) and a lookup of B's id returns (B, False).
C1_Original ==
    \A A \in GroupIds, B \in GroupIds :
        (A # B /\ <<A, B>> \in created /\ B \in store) =>
            /\ LookedUp(IntToStr(A)) => Returned(B, TRUE)
            /\ (GroupShortId(A) # NoId /\ LookedUp(qualified_short_id(A)))
                  => Returned(B, TRUE)
            /\ LookedUp(IntToStr(B)) => Returned(B, FALSE)

\* C1 amended: for any two groups A and B with B in the store and A no longer
\* in the store, after create_for_group(A, B) has inserted its row a lookup of
\* A's id returns (B, True); a lookup of A's qualified short id returns
\* (B, True) when A has a short id and no group of the store carries the same
\* project slug and short id; a lookup of B's id returns (B, False).
C1_RedirectResolves ==
    \A A \in GroupIds, B \in GroupIds :
        (<<A, B>> \in created /\ A \notin store /\ B \in store) =>
            /\ LookedUp(IntToStr(A)) => Returned(B, TRUE)
            /\ ( /\ GroupShortId(A) # NoId
                 /\ ~\E g \in store : /\ GroupSlug(g) = GroupSlug(A)
                                      /\ GroupShortId(g) = GroupShortId(A)
                 /\ LookedUp(qualified_short_id(A)) )
                  => Returned(B, TRUE)
            /\ LookedUp(IntToStr(B)) => Returned(B, FALSE)

\* A was merged into B and deleted, and its qualified short id led to B
C1_Witness ==
    \E A \in GroupIds, B \in GroupIds :
        /\ <<A, B>> \in created /\ A \notin store /\ B \in store
        /\ GroupShortId(A) # NoId
        /\ LookedUp(qualified_short_id(A))
        /\ Returned(B, TRUE)

\* C6: get_group_with_redirect raises DoesNotExist in exactly two ways: at
\* once, with no query made, for a token that is not numeric and that
\* parse_short_id rejects; and, when the direct lookup and the lookup through
\* the ledger both miss, with the error of the direct lookup.
C6_DoesNotExistTwoWays ==
    last.op = "get_group_with_redirect" =>
        LET token == last.token
            rejected == ~IsDigitStr(token) /\ ~parse_short_id(token).ok
            qs == QuerySetRows(last.queryset, store)
            directMiss == DirectMatches(LookupKey(token), qs) = {}
            redirectMiss == qs \cap RedirectTargets(LookupKey(token), ledger) = {}
        IN /\ rejected =>
                 /\ last.outcome = "DoesNotExist"
                 /\ last.raised = "parse"
                 /\ last.queries = <<>>
           /\ (~rejected /\ directMiss /\ redirectMiss) =>
                 /\ last.outcome = "DoesNotExist"
                 /\ last.raised = "direct"
                 /\ last.queries = <<"getter", "redirect">>
           /\ last.outcome = "DoesNotExist" =>
                 (rejected \/ (directMiss /\ redirectMiss))

\* Both lookups missed for a group that was deleted and redirected to a group
\* that is gone too
C6_Witness ==
    /\ last.op = "get_group_with_redirect"
    /\ last.outcome = "DoesNotExist"
    /\ last.raised = "direct"
    /\ last.queries = <<"getter", "redirect">>
    /\ \E r \in ledger : IntToStr(r.previous_group_id) = last.token

\* The ledger leads from group A to group B in one entry
Hop(A, B) == \E r \in ledger : r.previous_group_id = A /\ r.group_id = B

\* The ledger holds A -> B and B -> C, and neither A nor B is in the store
Chain(A, B, C) ==
    /\ Hop(A, B)
    /\ Hop(B, C)
    /\ A \notin store
    /\ B \notin store

\* The group the last lookup returned is the group of a ledger entry that
\* carries the token itself, as previous id or as previous slug and short id
OneEntryAway ==
    \E r \in ledger :
        /\ r.group_id = last.group
        /\ LET key == KeyOf[last.token]
           IN \/ key.numeric /\ r.previous_group_id = key.id
              \/ /\ ~key.numeric
                 /\ key.short_id.ok
                 /\ r.previous_short_id = key.short_id.short_id
                 /\ r.previous_project_slug = key.short_id.project_slug

\* C12 as stated: with A -> B and B -> C in the ledger, for three different
\* groups, and neither A nor B in the store, a lookup of A's id or of A's qualified short id raises
\* DoesNotExist; and a redirected lookup returns a group one entry away.
C12_Original ==
    last.op = "get_group_with_redirect" =>
        /\ \A A \in GroupIds, B \in GroupIds, C \in GroupIds :
              ( /\ A # B /\ B # C /\ A # C
                /\ Chain(A, B, C)
                /\ \/ last.token = IntToStr(A)
                   \/ GroupShortId(A) # NoId /\ last.token = qualified_short_id(A) )
                 => last.outcome = "DoesNotExist"
        /\ (last.outcome = "ok" /\ last.redirected) => OneEntryAway

\* C12 amended: with A -> B and B -> C in the ledger and neither A nor B in
\* the store, a lookup of A's id raises DoesNotExist, and so does a lookup of
\* A's qualified short id unless a group of the store carries the project
\* slug and short id of A (such a group is found by the direct lookup); C is
\* never returned as redirected. Every lookup that returns a group as
\* redirected returns the group of a ledger entry that carries the token
\* itself, which is in the store, so no group is reached through two
\* entries.
C12_OneHop ==
    last.op = "get_group_with_redirect" =>
        /\ \A A \in GroupIds, B \in GroupIds, C \in GroupIds :
              Chain(A, B, C) =>
                 /\ last.token = IntToStr(A) => last.outcome = "DoesNotExist"
                 /\ ( /\ GroupShortId(A) # NoId
                      /\ last.token = qualified_short_id(A) ) =>
                        /\ ~(last.outcome = "ok" /\ last.redirected)
                        /\ (~\E g \in store : /\ GroupSlug(g) = GroupSlug(A)
                                               /\ GroupShortId(g) = GroupShortId(A))
                              => last.outcome = "DoesNotExist"
        /\ (last.outcome = "ok" /\ last.redirected) =>
              /\ OneEntryAway
              /\ last.group \in store

\* A was redirected to B and B to C, A and B are gone and C is still there:
\* the lookup of A's id made both queries and raised DoesNotExist
C12_Witness ==
    \E A \in GroupIds, B \in GroupIds, C \in GroupIds :
        /\ A # B /\ B # C /\ A # C
        /\ Chain(A, B, C)
        /\ C \in store
        /\ last.op = "get_group_with_redirect"
        /\ last.token = IntToStr(A)
        /\ last.outcome = "DoesNotExist"
        /\ last.queries = <<"getter", "redirect">>

\* The groups of the ledger entries that carry the token of the last lookup
TokenTargets ==
    {r.group_id : r \in {x \in ledger :
        LET key == KeyOf[last.token]
        IN \/ key.numeric /\ x.previous_group_id = key.id
           \/ /\ ~key.numeric
              /\ key.short_id.ok
              /\ x.previous_short_id = key.short_id.short_id
              /\ x.previous_project_slug = key.short_id.project_slug}}

\* The groups of the store that the token of the last lookup names itself
TokenGroups ==
    {g \in store :
        LET key == KeyOf[last.token]
        IN \/ key.numeric /\ g = key.id
           \/ /\ ~key.numeric
              /\ key.short_id.ok
              /\ GroupShortId(g) = key.short_id.short_id
              /\ GroupSlug(g) = key.short_id.project_slug}

\* C13: with a queryset (here the groups of one organization), every group
\* get_group_with_redirect returns, directly or as redirected, is a stored
\* group of the queryset; when the queryset has no group for the token and
\* every group the ledger gives for it lies outside the queryset, the lookup
\* raises DoesNotExist and does not return the surviving group.
C13_InQueryset ==
    (last.op = "get_group_with_redirect" /\ last.queryset # 0) =>
        /\ last.outcome = "ok" =>
              /\ last.group \in store
              /\ GroupOrg(last.group) = last.queryset
        /\ ( /\ \A g \in TokenGroups : GroupOrg(g) # last.queryset
             /\ \A g \in TokenTargets : g \notin store \/ GroupOrg(g) # last.queryset )
              => last.outcome = "DoesNotExist"

\* A group was redirected to a group of another organization, which is in
\* the store: the lookup within the first organization raised DoesNotExist
\* after both queries
C13_Witness ==
    /\ last.op = "get_group_with_redirect"
    /\ last.queryset # 0
    /\ \E g \in TokenTargets : g \in store /\ GroupOrg(g) # last.queryset
    /\ \E r \in ledger : GroupOrg(r.previous_group_id) = last.queryset
                          /\ IntToStr(r.previous_group_id) = last.token
    /\ last.outcome = "DoesNotExist"
    /\ last.queries = <<"getter", "redirect">>

\* ------------------------------------------------- by_qualified_short_id
\* A slip: groups that wait for their merge are not excluded
ExcludedStatuses_NoMerge == {PENDING_DELETION, DELETION_IN_PROGRESS}

\* The statuses by_qualified_short_id excludes
ExcludedStatuses == {PENDING_DELETION, DELETION_IN_PROGRESS, PENDING_MERGE}

\* GroupManager.by_qualified_short_id(organization_id, short_id)
by_qualified_short_id(organization_id, token, rows, stat) ==
    LET short_id == parse_short_id(token)
        res == [NoCall EXCEPT !.op = "by_qualified_short_id", !.token = token,
                              !.queryset = organization_id]
    IN IF ~short_id.ok
       THEN [res EXCEPT !.outcome = "DoesNotExist", !.raised = "parse"]
       ELSE LET got == DjangoGet({g \in rows :
                                     /\ stat[g] \notin ExcludedStatuses
                                     /\ GroupOrg(g) = organization_id
                                     /\ GroupSlug(g) = short_id.project_slug
                                     /\ GroupShortId(g) = short_id.short_id})
            IN [res EXCEPT !.outcome = got.outcome, !.group = got.group,
                           !.raised = IF got.outcome = "ok" THEN "none" ELSE "direct",
                           !.queries = <<"getter">>]

ByQualifiedShortId(organization_id, token) ==
    /\ last' = by_qualified_short_id(organization_id, token, store, status)
    /\ UNCHANGED <<store, status, ledger, created, merge, others>>

\* The stored status of a group is written (by a resolve, an ignore, a merge
\* or a deletion)
SetStatus(g, s) ==
    /\ g \in store
    /\ status[g] # s
    /\ status' = [status EXCEPT ![g] = s]
    /\ last' = [NoCall EXCEPT !.op = "set_status", !.group = g]
    /\ UNCHANGED <<store, ledger, created, merge, others>>

NextQualified ==
    \/ \E organization_id \in Orgs, token \in Tokens :
          ByQualifiedShortId(organization_id, token)
    \/ \E g \in GroupIds, s \in GroupStatusValues : SetStatus(g, s)

SpecQualified == Init /\ [][NextQualified]_vars

\* C5: by_qualified_short_id never returns a group whose stored status is
\* PendingDeletion, DeletionInProgress or PendingMerge, nor a group of another
\* organization; when the token names no other group, and when the token
\* does not parse, it raises DoesNotExist.
C5_QualifiedLookupExcludes ==
    last.op = "by_qualified_short_id" =>
        LET p == parse_short_id(last.token)
            named == {g \in store : /\ p.ok
                                    /\ GroupSlug(g) = p.project_slug
                                    /\ GroupShortId(g) = p.short_id}
            live == {g \in named :
                        /\ status[g] \notin {PENDING_DELETION, DELETION_IN_PROGRESS,
                                             PENDING_MERGE}
                        /\ GroupOrg(g) = last.queryset}
        IN /\ last.outcome \in {"ok", "DoesNotExist"}
           /\ last.outcome = "ok" => last.group \in live
           /\ ~p.ok => last.outcome = "DoesNotExist"
           /\ live = {} => last.outcome = "DoesNotExist"

\* The token names a group of the organization that waits for its merge, and
\* the lookup raised DoesNotExist
C5_Witness ==
    /\ last.op = "by_qualified_short_id"
    /\ last.outcome = "DoesNotExist"
    /\ \E g \in store :
          /\ qualified_short_id(g) = last.token
          /\ GroupOrg(g) = last.queryset
          /\ status[g] = PENDING_MERGE

\* ------------------------------------------- concurrent create_for_group
\* Request p enters create_for_group(from_group, to_group): the arguments of
\* the INSERT are read from the two objects
CallCreateForGroup(p, from_group, to_group) ==
    /\ merge[p].pc = "idle"
    /\ merge' = [merge EXCEPT ![p] = [pc |-> "insert", from_group |-> from_group,
                                      to_group |-> to_group, inserts |-> 0]]
    /\ UNCHANGED <<store, status, ledger, created, last, others>>

\* The INSERT of request p reaches the database, which applies it atomically:
\* the row is stored and the call returns it, or the uniqueness conflict is
\* raised as IntegrityError, which create_for_group lets through to its caller
InsertRedirect(p) ==
    LET ins == RedirectInsert(RedirectRow(merge[p].from_group, merge[p].to_group), ledger)
    IN /\ merge[p].pc = "insert"
       /\ ledger' = ins.rows
       /\ created' = IF ins.outcome = "ok"
                     THEN created \cup {<<merge[p].from_group, merge[p].to_group>>}
                     ELSE created
       /\ merge' = [merge EXCEPT ![p].pc = IF ins.outcome = "ok" THEN "returned"
                                           ELSE "IntegrityError",
                                 ![p].inserts = merge[p].inserts + 1]
       /\ UNCHANGED <<store, status, last, others>>

NextRace ==
    \/ \E p \in Procs, from_group \in GroupIds, to_group \in GroupIds :
          CallCreateForGroup(p, from_group, to_group)
    \/ \E p \in Procs : InsertRedirect(p)

SpecRace == Init /\ [][NextRace]_vars

\* Two requests that have finished and raced to redirect the same group to
\* two different groups
Raced(p, q) ==
    /\ p # q
    /\ merge[p].pc \in {"returned", "IntegrityError"}
    /\ merge[q].pc \in {"returned", "IntegrityError"}
    /\ merge[p].from_group = merge[q].from_group
    /\ merge[p].to_group # merge[q].to_group
    /\ merge[p].from_group \notin {merge[p].to_group, merge[q].to_group}

RowsFor(g) == {r \in ledger : r.previous_group_id = g}

\* C4: of two concurrent calls that try to redirect the same group to two
\* different groups exactly one insert succeeds and the ledger ends with a
\* single entry for the group; the losing call does not fail: it treats the
\* conflict as already redirected and returns after re-reading the row.
C4_Original ==
    \A p \in Procs, q \in Procs :
        Raced(p, q) =>
            /\ Cardinality(RowsFor(merge[p].from_group)) = 1
            /\ merge[p].pc # "IntegrityError"
            /\ merge[q].pc # "IntegrityError"

\* ------------------------------------------------- the status resolver
GetStatus ==
    LET out == get_status(issue, snooze, resolve_age, now)
    IN /\ statusCall' = [called |-> TRUE, stored |-> issue.status, result |-> out.result]
       /\ issue' = out.self
       /\ UNCHANGED <<snooze, resolve_age, now, groupVars, saveVars, teamVars, parseVars>>

\* The stored status is written (a resolve, an ignore, a merge, a deletion)
SetIssueStatus(s) ==
    /\ issue.status # s
    /\ issue' = [issue EXCEPT !.status = s]
    /\ statusCall' = NoStatusCall
    /\ UNCHANGED <<snooze, resolve_age, now, groupVars, saveVars, teamVars, parseVars>>

\* An event of the group arrives: last_seen moves to the current time
SeeEvent ==
    /\ issue.last_seen # now
    /\ issue' = [issue EXCEPT !.last_seen = now]
    /\ statusCall' = NoStatusCall
    /\ UNCHANGED <<snooze, resolve_age, now, groupVars, saveVars, teamVars, parseVars>>

\* The snooze record is created, deleted, or stops or starts being valid
SetSnooze(sn) ==
    /\ snooze # sn
    /\ snooze' = sn
    /\ statusCall' = NoStatusCall
    /\ UNCHANGED <<issue, resolve_age, now, groupVars, saveVars, teamVars, parseVars>>

\* The project option is changed
SetResolveAge(age) ==
    /\ resolve_age # age
    /\ resolve_age' = age
    /\ statusCall' = NoStatusCall
    /\ UNCHANGED <<issue, snooze, now, groupVars, saveVars, teamVars, parseVars>>

\* An hour passes
Tick ==
    /\ now < MaxTime
    /\ now' = now + 1
    /\ statusCall' = NoStatusCall
    /\ UNCHANGED <<issue, snooze, resolve_age, groupVars, saveVars, teamVars, parseVars>>

NextStatus ==
    \/ GetStatus
    \/ \E s \in GroupStatusValues : SetIssueStatus(s)
    \/ SeeEvent
    \/ \E sn \in SnoozeStates : SetSnooze(sn)
    \/ \E age \in Ages : SetResolveAge(age)
    \/ Tick

SpecStatus == Init /\ [][NextStatus]_vars

\* The project has an auto-resolve age and last_seen is older than it
OverAge ==
    /\ resolve_age \notin {NoAge, 0}
    /\ issue.last_seen < now - resolve_age

\* C2 as stated: with a stored status of Ignored, get_status never returns
\* Ignored when the group has no snooze record or one that is no longer valid.
C2_Original ==
    (statusCall.called /\ statusCall.stored = IGNORED /\ snooze \in {"none", "invalid"})
        => statusCall.result \in {UNRESOLVED, RESOLVED}

\* C2 amended: with a stored status of Ignored, get_status never returns
\* Ignored when the snooze record is no longer valid: the status is overridden
\* to Unresolved before the auto-resolve step; when the group has no snooze
\* record the status is not overridden and get_status returns Ignored.
C2_IgnoredSnooze ==
    (statusCall.called /\ statusCall.stored = IGNORED) =>
        /\ snooze = "invalid" =>
              statusCall.result = IF OverAge THEN RESOLVED ELSE UNRESOLVED
        /\ snooze = "none" => statusCall.result = IGNORED

\* An ignored group whose snooze ran out and that is past the auto-resolve age
C2_Witness ==
    /\ statusCall.called
    /\ statusCall.stored = IGNORED
    /\ snooze = "invalid"
    /\ statusCall.result = RESOLVED

\* C3: get_status returns Resolved exactly when the stored status is Resolved,
\* or the status left by the snooze step is Unresolved, the project has an
\* auto-resolve age and last_seen is older than now minus that age; without
\* an auto-resolve age no group is auto-resolved.
C3_ResolvedExactlyWhen ==
    statusCall.called =>
        LET afterSnooze == IF statusCall.stored = IGNORED /\ snooze = "invalid"
                           THEN UNRESOLVED ELSE statusCall.stored
        IN /\ statusCall.result = RESOLVED <=>
                 \/ statusCall.stored = RESOLVED
                 \/ afterSnooze = UNRESOLVED /\ OverAge
           /\ (resolve_age \in {NoAge, 0} /\ statusCall.stored # RESOLVED)
                 => statusCall.result # RESOLVED

\* An unresolved group that get_status reports as resolved by its age
C3_Witness ==
    /\ statusCall.called
    /\ statusCall.stored = UNRESOLVED
    /\ statusCall.result = RESOLVED

\* C7 as stated: get_status returns Unresolved, Resolved or Ignored for every
\* stored status.
C7_Original ==
    statusCall.called => statusCall.result \in {UNRESOLVED, RESOLVED, IGNORED}

\* C7 amended: get_status returns Unresolved, Resolved or Ignored when the
\* stored status is one of these three, and returns the stored status as it
\* is when that is PendingDeletion, DeletionInProgress or PendingMerge; it
\* computes the result from the stored status, the snooze record and the
\* current time on every call and does not write the stored status.
C7_VisibleStatus ==
    statusCall.called =>
        /\ statusCall.stored \in {UNRESOLVED, RESOLVED, IGNORED}
              => statusCall.result \in {UNRESOLVED, RESOLVED, IGNORED}
        /\ statusCall.stored \in {PENDING_DELETION, DELETION_IN_PROGRESS, PENDING_MERGE}
              => statusCall.result = statusCall.stored
        /\ issue.status = statusCall.stored

\* get_status was called on a group that waits for its merge
C7_Witness ==
    /\ statusCall.called
    /\ statusCall.stored = PENDING_MERGE
    /\ statusCall.result = PENDING_MERGE

\* ------------------------------------------------------- editing and saving
\* An edit leaves the row alone; the record of the last save is dropped
Edited == [NoSave EXCEPT !.saves = persisted.saves]

SetLastSeen(t) ==
    /\ obj.last_seen # t
    /\ obj' = [obj EXCEPT !.last_seen = t]
    /\ persisted' = Edited
    /\ UNCHANGED <<groupVars, resolverVars, teamVars, parseVars>>

SetFirstSeen(t) ==
    /\ obj.first_seen # t
    /\ obj' = [obj EXCEPT !.first_seen = t]
    /\ persisted' = Edited
    /\ UNCHANGED <<groupVars, resolverVars, teamVars, parseVars>>

SetActiveAt(t) ==
    /\ obj.active_at # t
    /\ obj' = [obj EXCEPT !.active_at = t]
    /\ persisted' = Edited
    /\ UNCHANGED <<groupVars, resolverVars, teamVars, parseVars>>

SetMessage(m) ==
    /\ obj.message # m
    /\ obj' = [obj EXCEPT !.message = m]
    /\ persisted' = Edited
    /\ UNCHANGED <<groupVars, resolverVars, teamVars, parseVars>>

SetTimesSeen(n) ==
    /\ obj.times_seen # n
    /\ obj' = [obj EXCEPT !.times_seen = n]
    /\ persisted' = Edited
    /\ UNCHANGED <<groupVars, resolverVars, teamVars, parseVars>>

\* Group.save() at time t
Save(t) ==
    /\ obj' = save(obj, t)
    /\ persisted' = [saved |-> TRUE,
                     saves |-> IF persisted.saves < 2 THEN persisted.saves + 1 ELSE 2,
                     at |-> t,
                     before |-> obj,
                     row |-> Persist(save(obj, t))]
    /\ UNCHANGED <<groupVars, resolverVars, teamVars, parseVars>>

NextSave ==
    \/ \E t \in Stamps \cup {NoTime} : SetLastSeen(t)
    \/ \E t \in Stamps \cup {NoTime} : SetFirstSeen(t)
    \/ \E t \in Stamps \cup {NoTime} : SetActiveAt(t)
    \/ \E m \in Messages : SetMessage(m)
    \/ \E n \in (0..MaxTimesSeen) \cup {NoCount} : SetTimesSeen(n)
    \/ \E t \in Stamps : Save(t)

SpecSave == Init /\ [][NextSave]_vars

\* What C8 says of the row apart from its score: every attribute is set, the
\* unset ones by their defaults, and the message is one line of at most 255
\* characters
RowSet ==
    LET before == persisted.before
        r == persisted.row
    IN /\ r.last_seen # NoTime
       /\ r.last_seen = IF before.last_seen = NoTime THEN persisted.at
                        ELSE before.last_seen
       /\ r.first_seen # NoTime
       /\ r.first_seen = IF before.first_seen = NoTime THEN r.last_seen
                         ELSE before.first_seen
       /\ r.active_at # NoTime
       /\ r.active_at = IF before.active_at = NoTime THEN r.first_seen
                        ELSE before.active_at
       /\ r.times_seen # NoCount
       /\ r.times_seen = IF before.times_seen = NoCount THEN 1 ELSE before.times_seen
       /\ Len(r.message) <= 255
       /\ \A i \in DOMAIN r.message : r.message[i] # "\n"

\* C8 as stated: after every save the score of the row equals
\* calculate_score(times_seen, last_seen) of the row, and the other
\* attributes are set as RowSet says.
C8_Original ==
    persisted.saved =>
        /\ persisted.row.score * 1000 =
              calculate_score(persisted.row.times_seen, persisted.row.last_seen)
        /\ RowSet

\* C8 amended: after every save, the first and the later ones, the score of
\* the row is calculate_score(times_seen, last_seen) of the row cut to its
\* integer part, as the score column is an integer field; last_seen is set,
\* first_seen is set (by default to last_seen), active_at is set (by default
\* to first_seen), times_seen is not None (by default 1), and the message is
\* a single line of at most 255 characters.
C8_SavedRow ==
    persisted.saved =>
        /\ persisted.row.score =
              calculate_score(persisted.row.times_seen, persisted.row.last_seen) \div 1000
        /\ RowSet

\* A later save of a group seen twice, after its last_seen was edited
C8_Witness ==
    /\ persisted.saved
    /\ persisted.saves = 2
    /\ persisted.row.times_seen = 2
    /\ persisted.before.score # calculate_score(2, persisted.row.last_seen)
    /\ persisted.before.first_seen = NoTime
    /\ Len(persisted.before.message) > 255

\* ------------------------------------------------------ the team endpoint
\* POST /organizations/{slug}/teams/ by user, with data as its body
Post(organization, user, data) ==
    LET out == post(organization, user, data,
                    [teams |-> teams, signals |-> signals,
                     memberTeams |-> memberTeams, audit |-> audit])
    IN /\ Cardinality(out.db.teams) <= MaxTeams
       /\ teams' = out.db.teams
       /\ signals' = out.db.signals
       /\ memberTeams' = out.db.memberTeams
       /\ audit' = out.db.audit
       /\ resp' = [op |-> "post", organization |-> organization, user |-> user,
                   data |-> data, status |-> out.status, detail |-> out.detail,
                   team |-> out.team]
       /\ UNCHANGED <<groupVars, resolverVars, saveVars, parseVars>>

NextTeams ==
    \E organization \in Orgs, user \in Users, data \in Bodies :
        Post(organization, user, data)

SpecTeams == Init /\ [][NextTeams]_vars

\* The request of the step has a slug that a team of its organization has
Collides ==
    /\ Len(resp'.data.slug) > 0
    /\ \E t \in teams : t.organization = resp'.organization /\ t.slug = resp'.data.slug

\* The step created one team, of the organization of the request, with the
\* slug and the name of the request, or with the slug derived from the name
\* or the name taken from the slug, and answered 201
Created ==
    /\ resp'.status = 201
    /\ \E t \in teams' :
          /\ t \notin teams
          /\ teams' = teams \cup {t}
          /\ t.id = resp'.team
          /\ t.organization = resp'.organization
          /\ Len(t.slug) > 0
          /\ (Len(resp'.data.slug) > 0 => t.slug = resp'.data.slug)
          /\ t.name = IF Len(resp'.data.name) > 0 THEN resp'.data.name ELSE resp'.data.slug
          /\ ~\E u \in teams : u.organization = t.organization /\ u.slug = t.slug

Conflict ==
    /\ resp'.status = 409
    /\ resp'.detail = "A team with this slug already exists."
    /\ teams' = teams

Rejected ==
    /\ resp'.status = 400
    /\ teams' = teams

BodyValid ==
    LET name == resp'.data.name
        slug == resp'.data.slug
    IN /\ Len(name) <= 64
       /\ Len(slug) <= 50
       /\ \A i \in DOMAIN slug :
             slug[i] \in Range(Lowers) \cup Range(Digits) \cup {"_", "-"}
       /\ (Len(name) > 0 \/ Len(slug) > 0)

C10_SideEffects ==
    [][ IF resp'.status = 201
        THEN /\ signals' = signals \cup
                    {[organization |-> resp'.organization, user |-> resp'.user,
                      team |-> resp'.team]}
             /\ signals' # signals
             /\ audit' = audit \cup
                    {[organization |-> resp'.organization, actor |-> resp'.user,
                      target_object |-> resp'.team, event |-> "TEAM_ADD"]}
             /\ audit' # audit
             /\ IF /\ resp'.user # 0
                   /\ [user |-> resp'.user, organization |-> resp'.organization]
                         \in OrgMembers
                THEN /\ memberTeams' = memberTeams \cup
                            {[team |-> resp'.team,
                              organizationmember |->
                                  [user |-> resp'.user,
                                   organization |-> resp'.organization]]}
                     /\ memberTeams' # memberTeams
                ELSE memberTeams' = memberTeams
        ELSE /\ resp'.status \in {400, 409}
             /\ UNCHANGED <<signals, audit, memberTeams>> ]_vars

\* An authenticated user who is no member of the organization created a team
\* and got no membership row
C10_Witness ==
    /\ resp.op = "post"
    /\ resp.status = 201
    /\ resp.user = 1
    /\ resp.organization = 2
    /\ ~\E m \in memberTeams : m.team = resp.team
    /\ \E m \in memberTeams : m.team # resp.team

\* ------------------------------------------------------------ the parser
\* A caller holds one of the inputs
InitInputs ==
    /\ InitGroups
    /\ InitResolver
    /\ InitSave
    /\ InitTeams
    /\ parsed \in {[NoParse EXCEPT !.input = short_id] : short_id \in ParseInputs}

\* parse_short_id(short_id) and looks_like_short_id(short_id) of the input
ParseShortId ==
    /\ ~parsed.called
    /\ parsed' = [called |-> TRUE, input |-> parsed.input,
                  result |-> parse_short_id(parsed.input),
                  looks |-> looks_like_short_id(parsed.input)]
    /\ UNCHANGED <<groupVars, resolverVars, saveVars, teamVars>>

NextParse == ParseShortId

SpecParse == InitInputs /\ [][NextParse]_vars

\* The positions of a string where a separator is followed by letters and
\* digits only up to the end, on the first line of the string
Separators(s) ==
    {i \in 1..(Len(s) - 1) :
        /\ s[i] \in {" ", "\n", "_", "-"}
        /\ \A j \in (i + 1)..Len(s) : s[j] \in Range(Lowers) \cup Range(Uppers) \cup Range(Digits)
        /\ \A j \in 1..(i - 1) : s[j] # "\n"}

\* A token without the zeros it starts with (O is read as a zero)
RECURSIVE Significant(_)
Significant(id) ==
    IF Len(id) > 0 /\ id[1] \in {"0", "O", "o"} THEN Significant(Tail(id)) ELSE id

\* C11: parse_short_id returns a ShortId or None for every string and never
\* raises; it returns None exactly when the grammar does not match (the
\* strings for which looks_like_short_id is false), or the token after the
\* separator has a character outside the alphabet, or the value of the token
\* is greater than 2^63 - 1 (more than 13 significant digits, or 13 that
\* start with a digit above 7); a ShortId has the slug in lower case.
C11_ParseFailsClosed ==
    parsed.called =>
        LET s == StrStrip(parsed.input)
            grammar == Separators(s) # {}
            i == CHOOSE x \in Separators(s) : TRUE
            slug == SubSeq(s, 1, i - 1)
            id == SubSeq(s, i + 1, Len(s))
            decodable == \A j \in DOMAIN id :
                            CharUpper(id[j]) \in Range(Base32Alphabet) \cup {"O", "I", "L"}
            sig == Significant(id)
            tooBig == \/ Len(sig) > 13
                      \/ /\ Len(sig) = 13
                         /\ CharUpper(sig[1]) \notin {"1", "2", "3", "4", "5", "6", "7", "I", "L"}
            r == parsed.result
        IN /\ r.raised = "none"
           /\ parsed.looks = grammar
           /\ r.ok <=> (grammar /\ decodable /\ ~tooBig)
           /\ ~r.ok => r = NoShortId
           /\ r.ok => /\ r.project_slug = StrLower(slug)
                      /\ \A j \in DOMAIN r.project_slug : r.project_slug[j] \notin Range(Uppers)
                      /\ ~DigitsGreater(r.short_id, MaxIdDigits)
                      /\ base32_encode(r.short_id) =
                            LET up == [j \in DOMAIN sig |->
                                          IF CharUpper(sig[j]) \in {"I", "L"} THEN "1"
                                          ELSE IF CharUpper(sig[j]) = "O" THEN "0"
                                          ELSE CharUpper(sig[j])]
                            IN IF Len(up) = 0 THEN <<"0">> ELSE up

\* A token one above the maximum of the field, after a slug in upper case:
\* it looks like a short id and parse_short_id returns None
C11_Witness ==
    /\ parsed.called
    /\ parsed.input = <<"B", "-">> \o <<"8">> \o [i \in 1..12 |-> "0"]
    /\ parsed.looks
    /\ ~parsed.result.ok

====
